---------------------------- MODULE Spec2Model ----------------------------
(***************************************************************************)
(* Model of filename-to-nfo (src/main.py): the directory and file name     *)
(* classifiers, the descriptor builder and serializer, and the driver loop *)
(* that walks a directory tree and writes one .nfo descriptor per video.   *)
(*                                                                         *)
(* Strings are sequences of one-character strings; an Optional value is    *)
(* None (the empty tuple) or Some(x) (the one-element tuple <<x>>).        *)
(***************************************************************************)
EXTENDS Integers, Sequences, FiniteSets

VARIABLES
    overwrite,            \* configuration: overwrite existing descriptors
    outputEmptyElements,  \* configuration: emit empty elements
    total,                \* the module-level counter
    skipped,              \* the module-level list of skipped descriptor paths
    written,              \* the module-level list of written descriptor paths
    pc,                   \* position of the script: walk, files, done, crashed, unit
    walked,               \* the directories os.walk has yielded
    root,                 \* the directory being processed
    files,                \* its listing, as os.walk gave it
    queue,                \* sorted(files), the list the for loop iterates
    idx,                  \* position in queue
    directoryParser,      \* Optional: the DirectoryParser object
    fileParser,           \* Optional: the FileParser object
    episode,              \* Optional: the module-level EpisodeEntity
    nfo,                  \* Optional: the EpisodeNfo object
    disk,                 \* the paths that exist on disk
    stdout,               \* what has been printed
    writes,               \* history: every open(path, 'w') that succeeded
    failed,               \* history: the paths whose export raised IOError
    last                  \* history: what the last step did, and to which file

vars == <<overwrite, outputEmptyElements, total, skipped, written, pc, walked,
          root, files, queue, idx, directoryParser, fileParser, episode, nfo,
          disk, stdout, writes, failed, last>>

None == <<>>
Some(x) == <<x>>
Val(o) == o[1]

-----------------------------------------------------------------------------
(* Characters *)

UpperLetters == <<"A","B","C","D","E","F","G","H","I","J","K","L","M",
                  "N","O","P","Q","R","S","T","U","V","W","X","Y","Z">>
LowerLetters == <<"a","b","c","d","e","f","g","h","i","j","k","l","m",
                  "n","o","p","q","r","s","t","u","v","w","x","y","z">>
DigitChars == <<"0","1","2","3","4","5","6","7","8","9">>

Range(s) == {s[i] : i \in 1..Len(s)}
IndexOf(s, c) == CHOOSE i \in 1..Len(s) : s[i] = c

UpperSet == Range(UpperLetters)

\* str.lower() on one character
LowerChar(c) ==
    IF c \in UpperSet THEN LowerLetters[IndexOf(UpperLetters, c)] ELSE c

\* str.lower()
Lower(s) == [i \in 1..Len(s) |-> LowerChar(s[i])]

Digits == Range(DigitChars)
WordChars == UpperSet \cup Range(LowerLetters) \cup Digits \cup {"_"}

IsDigit(c) == c \in Digits
IsWordChar(c) == c \in WordChars
IsSpace(c) == c \in {" ", "\t", "\n", "\r"}

\* int(text) for a run of decimal digits
RECURSIVE ParseInt(_)
ParseInt(ds) ==
    IF ds = <<>> THEN 0
    ELSE 10 * ParseInt(SubSeq(ds, 1, Len(ds) - 1))
         + (IndexOf(DigitChars, ds[Len(ds)]) - 1)

-----------------------------------------------------------------------------
(* Regular expressions: a pattern is a sequence of items, each a character *)
(* class with a quantifier and the named group it belongs to ("" = none),  *)
(* or the end anchor.  Matching is Python's re.match: anchored at the      *)
(* start of the string, greedy, backtracking, first success wins.          *)

Item(cls, chars, quant, group) ==
    [cls |-> cls, chars |-> chars, quant |-> quant, group |-> group]
Lit(c, group) == Item("set", {c}, "1", group)
EndAnchor == Item("end", {}, "1", "")

\* flags=re.IGNORECASE applies to literal characters and sets
InClass(item, c) ==
    CASE item.cls = "digit"   -> IsDigit(c)
      [] item.cls = "nonword" -> ~IsWordChar(c)
      [] item.cls = "space"   -> IsSpace(c)
      [] item.cls = "any"     -> c # "\n"
      [] item.cls = "set"     -> LowerChar(c) \in {LowerChar(x) : x \in item.chars}
      [] OTHER                -> FALSE

MinCount(item) ==
    CASE item.quant \in {"?", "*"} -> 0
      [] item.quant = "2+"         -> 2
      [] OTHER                     -> 1

\* the longest run the item can take at pos
RECURSIVE RunLength(_, _, _)
RunLength(item, s, pos) ==
    IF pos > Len(s) \/ ~InClass(item, s[pos]) THEN 0
    ELSE 1 + RunLength(item, s, pos + 1)

MaxCount(item, s, pos) ==
    LET run == RunLength(item, s, pos)
    IN  IF item.quant \in {"1", "?"} /\ run > 1 THEN 1 ELSE run

Capture(caps, item, text) ==
    IF item.group = "" THEN caps
    ELSE IF item.group \in DOMAIN caps
         THEN [caps EXCEPT ![item.group] = @ \o text]
         ELSE [g \in DOMAIN caps \cup {item.group} |->
                  IF g = item.group THEN text ELSE caps[g]]

RECURSIVE MatchFrom(_, _, _, _, _)
RECURSIVE TryCount(_, _, _, _, _, _)

\* None, or Some(groupdict) of the first successful match of items k.. at pos
MatchFrom(items, k, s, pos, caps) ==
    IF k > Len(items) THEN Some(caps)
    ELSE IF items[k].cls = "end"
         THEN IF pos = Len(s) + 1 \/ (pos = Len(s) /\ s[pos] = "\n")
              THEN MatchFrom(items, k + 1, s, pos, caps)
              ELSE None
         ELSE TryCount(items, k, s, pos, caps, MaxCount(items[k], s, pos))

TryCount(items, k, s, pos, caps, n) ==
    IF n < MinCount(items[k]) THEN None
    ELSE LET r == MatchFrom(items, k + 1, s, pos + n,
                            Capture(caps, items[k], SubSeq(s, pos, pos + n - 1)))
         IN  IF r # None THEN r ELSE TryCount(items, k, s, pos, caps, n - 1)

NoGroups == [g \in {} |-> <<>>]

\* regex.match(s)
ReMatch(items, s) == MatchFrom(items, 1, s, 1, NoGroups)

-----------------------------------------------------------------------------
(* DirectoryParser *)

DirectoryParserREGEXES == <<
    \* ^(?P<seasonNumber>\d+)
    << Item("digit", {}, "+", "seasonNumber") >>,
    \* \W+\s+(?P<seasonNumber>\d+)$
    << Item("nonword", {}, "+", ""), Item("space", {}, "+", ""),
       Item("digit", {}, "+", "seasonNumber"), EndAnchor >>,
    \* ^(?P<seasonSpecials>Specials)
    << Lit("S", "seasonSpecials"), Lit("p", "seasonSpecials"),
       Lit("e", "seasonSpecials"), Lit("c", "seasonSpecials"),
       Lit("i", "seasonSpecials"), Lit("a", "seasonSpecials"),
       Lit("l", "seasonSpecials"), Lit("s", "seasonSpecials") >>,
    \* ^[Season|Lesson|Chapter|Part]\W+\s+(?P<seasonNumber>\d+)
    << Item("set", {"S","e","a","s","o","n","|","L","C","h","p","t","r","P"},
            "1", ""),
       Item("nonword", {}, "+", ""), Item("space", {}, "+", ""),
       Item("digit", {}, "+", "seasonNumber") >>
>>

\* the loop of DirectoryParser.parse from pattern k on: the season number
RECURSIVE DirectoryParserLoop(_, _, _)
DirectoryParserLoop(regexes, k, directory) ==
    IF k > Len(regexes) THEN None
    ELSE LET m == ReMatch(regexes[k], directory)
         IN  IF m # None
             THEN LET d  == Val(m)
                      s1 == IF "seasonNumber" \in DOMAIN d
                            THEN Some(ParseInt(d["seasonNumber"])) ELSE None
                  IN  IF "seasonSpecials" \in DOMAIN d THEN Some(0) ELSE s1
             ELSE DirectoryParserLoop(regexes, k + 1, directory)

\* at: "directory" between the assignment of _directory and parse(),
\* "parsed" once parse() has returned
DirectoryParserParse(self) ==
    [self EXCEPT !.seasonNumber =
                     DirectoryParserLoop(DirectoryParserREGEXES, 1, self._directory),
                 !.at = "parsed"]

\* DirectoryParser.directory(value) up to the call of parse()
DirectoryParserDirectory(self, value) ==
    [self EXCEPT !._directory = value, !.at = "directory"]

\* DirectoryParser(directory=value)
DirectoryParserNew(value) ==
    DirectoryParserParse([_directory |-> value, seasonNumber |-> None,
                          at |-> "directory"])

-----------------------------------------------------------------------------
(* FileParser *)

FileParserREGEXES == <<
    \* ^(?P<seasonNumber>\d+)[-\.x](?P<episodeNumber>\d{2,})\W*\s*(?P<episodeTitle>.+)$
    << Item("digit", {}, "+", "seasonNumber"), Item("set", {"-", ".", "x"}, "1", ""),
       Item("digit", {}, "2+", "episodeNumber"),
       Item("nonword", {}, "*", ""), Item("space", {}, "*", ""),
       Item("any", {}, "+", "episodeTitle"), EndAnchor >>,
    \* ^(?P<episodeNumber>\d{2,})\W*\s*(?P<episodeTitle>.+)$
    << Item("digit", {}, "2+", "episodeNumber"),
       Item("nonword", {}, "*", ""), Item("space", {}, "*", ""),
       Item("any", {}, "+", "episodeTitle"), EndAnchor >>,
    \* s(?P<seasonNumber>\d{2,})e(?P<episodeNumber>\d{2,})\s?\W*\s*(?P<episodeTitle>.+)$
    << Lit("s", ""), Item("digit", {}, "2+", "seasonNumber"),
       Lit("e", ""), Item("digit", {}, "2+", "episodeNumber"),
       Item("space", {}, "?", ""),
       Item("nonword", {}, "*", ""), Item("space", {}, "*", ""),
       Item("any", {}, "+", "episodeTitle"), EndAnchor >>
>>

\* A faulty variant of the loop: without the break, every later pattern
\* that matches overwrites the fields
RECURSIVE FileParserLoopNoBreak(_, _, _)
FileParserLoopNoBreak(regexes, k, self) ==
    IF k > Len(regexes) THEN self
    ELSE LET m == ReMatch(regexes[k], self._file)
             d == Val(m)
             hit == [self EXCEPT
                       !.seasonNumber  = IF "seasonNumber" \in DOMAIN d
                                         THEN Some(ParseInt(d["seasonNumber"])) ELSE @,
                       !.episodeNumber = IF "episodeNumber" \in DOMAIN d
                                         THEN Some(ParseInt(d["episodeNumber"])) ELSE @,
                       !.episodeTitle  = IF "episodeTitle" \in DOMAIN d
                                         THEN Some(d["episodeTitle"]) ELSE @]
         IN  FileParserLoopNoBreak(regexes, k + 1, IF m # None THEN hit ELSE self)

\* the loop of FileParser.parse from pattern k on, over the defaults in self
RECURSIVE FileParserLoop(_, _, _)
FileParserLoop(regexes, k, self) ==
    IF k > Len(regexes) THEN self
    ELSE LET m == ReMatch(regexes[k], self._file)
         IN  IF m # None
             THEN LET d == Val(m)
                  IN  [self EXCEPT
                         !.seasonNumber  = IF "seasonNumber" \in DOMAIN d
                                           THEN Some(ParseInt(d["seasonNumber"])) ELSE @,
                         !.episodeNumber = IF "episodeNumber" \in DOMAIN d
                                           THEN Some(ParseInt(d["episodeNumber"])) ELSE @,
                         !.episodeTitle  = IF "episodeTitle" \in DOMAIN d
                                           THEN Some(d["episodeTitle"]) ELSE @]
             ELSE FileParserLoop(regexes, k + 1, self)

\* at: "file" between the assignment of _file and parse(), "parsed" once
\* parse() has returned
FileParserParse(self) ==
    FileParserLoop(FileParserREGEXES, 1,
                   [self EXCEPT !.episodeTitle  = self._episodeTitle,
                                !.episodeNumber = None,
                                !.seasonNumber  = self._seasonNumber,
                                !.at            = "parsed"])

\* FileParser.file(value) up to the call of parse()
FileParserFile(self, value) == [self EXCEPT !._file = value, !.at = "file"]

\* FileParser(file, episodeTitle, seasonNumber) up to the assignment of _file
FileParserInit(file, episodeTitle, seasonNumber) ==
    [seasonNumber  |-> seasonNumber,
     episodeTitle  |-> episodeTitle,
     episodeNumber |-> None,
     _file         |-> file,
     _seasonNumber |-> seasonNumber,
     _episodeTitle |-> episodeTitle,
     at            |-> "file"]

FileParserNew(file, episodeTitle, seasonNumber) ==
    FileParserParse(FileParserInit(file, episodeTitle, seasonNumber))

-----------------------------------------------------------------------------
(* Paths and strings of the standard library, as the program uses them *)

\* code-point order of the characters that occur in names
CodePoints == <<"\n", " ", "&", "-", ".", "/">> \o DigitChars \o <<"<", ">">>
              \o UpperLetters \o <<"_">> \o LowerLetters \o <<"|">>
Ord(c) == IndexOf(CodePoints, c)

\* s < t for Python strings
RECURSIVE StrLess(_, _)
StrLess(s, t) ==
    IF t = <<>> THEN FALSE
    ELSE IF s = <<>> THEN TRUE
    ELSE IF s[1] = t[1] THEN StrLess(Tail(s), Tail(t))
    ELSE Ord(s[1]) < Ord(t[1])

RECURSIVE Insert(_, _)
Insert(sorted, x) ==
    IF sorted = <<>> THEN <<x>>
    ELSE IF StrLess(x, sorted[1]) THEN <<x>> \o sorted
    ELSE <<sorted[1]>> \o Insert(Tail(sorted), x)

\* sorted(files)
RECURSIVE Sorted(_)
Sorted(xs) ==
    IF xs = <<>> THEN <<>> ELSE Insert(Sorted(SubSeq(xs, 1, Len(xs) - 1)), xs[Len(xs)])

\* the index of the last c in s, 0 when there is none (str.rfind, 1-based)
RFind(s, c) ==
    IF \E i \in 1..Len(s) : s[i] = c
    THEN CHOOSE i \in 1..Len(s) : s[i] = c /\ \A j \in (i + 1)..Len(s) : s[j] # c
    ELSE 0

\* os.path.splitext: the extension starts at the last dot that follows the
\* last separator and is preceded by a character other than a dot
SplitExt(p) ==
    LET sepIndex == RFind(p, "/")
        dotIndex == RFind(p, ".")
    IN  IF dotIndex > sepIndex
           /\ \E i \in (sepIndex + 1)..(dotIndex - 1) : p[i] # "."
        THEN <<SubSeq(p, 1, dotIndex - 1), SubSeq(p, dotIndex, Len(p))>>
        ELSE <<p, <<>>>>

\* os.path.join of two components
PathJoin(a, b) ==
    IF b # <<>> /\ b[1] = "/" THEN b
    ELSE IF a = <<>> \/ a[Len(a)] = "/" THEN a \o b
    ELSE a \o <<"/">> \o b

\* os.path.basename
Basename(p) == SubSeq(p, RFind(p, "/") + 1, Len(p))

\* the process's working directory, for os.path.abspath
GetCwd == <<"/", "w">>

\* os.path.abspath of a relative path that starts with the component "."
AbsPath(p) ==
    IF p # <<>> /\ p[1] = "/" THEN p
    ELSE IF p = <<".">> THEN GetCwd
    ELSE IF Len(p) >= 2 /\ p[1] = "." /\ p[2] = "/"
         THEN PathJoin(GetCwd, SubSeq(p, 3, Len(p)))
    ELSE PathJoin(GetCwd, p)

\* str.strip()
RECURSIVE LStrip(_)
LStrip(s) == IF s # <<>> /\ IsSpace(s[1]) THEN LStrip(Tail(s)) ELSE s
RECURSIVE RStrip(_)
RStrip(s) ==
    IF s # <<>> /\ IsSpace(s[Len(s)]) THEN RStrip(SubSeq(s, 1, Len(s) - 1)) ELSE s
Strip(s) == RStrip(LStrip(s))

\* str(n) for a non-negative integer
RECURSIVE Decimal(_)
Decimal(n) ==
    IF n < 10 THEN <<DigitChars[n + 1]>>
    ELSE Decimal(n \div 10) \o <<DigitChars[(n % 10) + 1]>>

\* hashlib.md5(source).hexdigest(), kept symbolic: the digest of a source is
\* the non-empty term md5:<source>, equal for equal sources
Md5HexDigest(source) == <<"md5:">> \o source

-----------------------------------------------------------------------------
(* EpisodeEntity *)

EpisodeEntityNew == [_episodeTitle |-> None, _episodeNumber |-> None,
                     _seasonNumber |-> None]

SetEpisodeTitle(self, value) ==
    [self EXCEPT !._episodeTitle = IF value # None THEN Some(Strip(Val(value))) ELSE value]
SetEpisodeNumber(self, value) ==
    [self EXCEPT !._episodeNumber = IF value # None THEN Some(Val(value)) ELSE value]
SetSeasonNumber(self, value) ==
    [self EXCEPT !._seasonNumber = IF value # None THEN Some(Val(value)) ELSE value]

-----------------------------------------------------------------------------
(* EpisodeNfo *)

DECLARATION == "<?xml version=\"1.0\" encoding=\"UTF-8\" standalone=\"yes\" ?>"
EXTENSION == <<".", "n", "f", "o">>

EpisodeNfoNew(dirName, fileRoot, fileExtension, emptyElements, extras, idSource, idType) ==
    [dirName        |-> dirName,
     fileRoot       |-> fileRoot,
     fileExtension  |-> fileExtension,
     emptyElements  |-> emptyElements,
     extraElements  |-> extras,
     uniqueIdSource |-> idSource,
     uniqueIdType   |-> idType,
     episode        |-> None,
     xmlTree        |-> None]

NfoBasename(self) == self.fileRoot \o EXTENSION
NfoPath(self) == PathJoin(self.dirName, self.fileRoot \o EXTENSION)

\* ET.Element(tag) / ET.SubElement(parent, tag)
Element(tag) ==
    [tag |-> tag, attrib |-> <<>>, text |-> None, tail |-> None, children |-> <<>>]
WithText(el, text) == [el EXCEPT !.text = text]
SubElement(parent, el) == [parent EXCEPT !.children = Append(@, el)]

generateId(self) ==
    LET name == self.fileRoot \o self.fileExtension
        source == CASE self.uniqueIdSource = "filename" -> name
                    [] self.uniqueIdSource = "absolute" ->
                           AbsPath(PathJoin(self.dirName, name))
                    [] OTHER -> PathJoin(self.dirName, name)
    IN  Md5HexDigest(source)

RECURSIVE AddExtras(_, _, _)
AddExtras(tree, extras, k) ==
    IF k > Len(extras) THEN tree
    ELSE AddExtras(SubElement(tree, Element(extras[k])), extras, k + 1)

\* the element for an optional number: str(n if n is not None else '')
NumberText(n) == IF n # None THEN Some(Decimal(Val(n))) ELSE Some(<<>>)

\* A faulty variant of buildNfo: season and episode are emitted only when
\* they are known, whatever the flag says
buildNfoOmitsNull(self, ep) ==
    LET t0 == Element("episodedetails")
        t1 == SubElement(t0, WithText(Element("title"), Val(self.episode)._episodeTitle))
        t2 == IF ep._seasonNumber # None
              THEN SubElement(t1, WithText(Element("season"),
                                           NumberText(ep._seasonNumber)))
              ELSE t1
        t3 == IF ep._episodeNumber # None
              THEN SubElement(t2, WithText(Element("episode"),
                                           NumberText(ep._episodeNumber)))
              ELSE t2
        t4 == SubElement(t3, [WithText(Element("uniqueid"), Some(generateId(self)))
                                 EXCEPT !.attrib = <<<<"type", self.uniqueIdType>>>>])
    IN  IF self.emptyElements THEN AddExtras(t4, self.extraElements, 1) ELSE t4

\* EpisodeNfo.buildNfo: the tree; ep is the module-level episode the
\* method reads beside self.episode
buildNfo(self, ep) ==
    LET t0 == Element("episodedetails")
        t1 == SubElement(t0, WithText(Element("title"), Val(self.episode)._episodeTitle))
        t2 == IF self.emptyElements \/ ep._seasonNumber # None
              THEN SubElement(t1, WithText(Element("season"),
                                           NumberText(ep._seasonNumber)))
              ELSE t1
        t3 == IF self.emptyElements \/ ep._episodeNumber # None
              THEN SubElement(t2, WithText(Element("episode"),
                                           NumberText(ep._episodeNumber)))
              ELSE t2
        t4 == SubElement(t3, [WithText(Element("uniqueid"), Some(generateId(self)))
                                 EXCEPT !.attrib = <<<<"type", self.uniqueIdType>>>>])
    IN  IF self.emptyElements THEN AddExtras(t4, self.extraElements, 1) ELSE t4

OrEmpty(o) == IF o = None THEN <<>> ELSE Val(o)

\* "\n" + ("  " * depth)
RECURSIVE Spaces(_)
Spaces(n) == IF n <= 0 THEN <<>> ELSE <<" ", " ">> \o Spaces(n - 1)
Indent(depth) == <<"\n">> \o Spaces(depth)

\* EpisodeNfo._prettify(current, parent, index, depth): the subtree of
\* current after the call; what the call assigns in parent is applied by the
\* parent's loop, in the order of the calls
RECURSIVE prettify(_, _)
RECURSIVE prettifyFrom(_, _, _)
prettify(current, depth) == prettifyFrom(current, 1, depth)

\* A faulty variant of the loop: the indentation is added to the text and
\* tail already there instead of replacing them
RECURSIVE prettifyFromAppending(_, _, _)
prettifyFromAppending(parent, index, depth) ==
    IF index > Len(parent.children) THEN parent
    ELSE LET node == prettifyFromAppending(parent.children[index], 1, depth + 1)
             p1 == [parent EXCEPT !.children[index] = node]
             p2 == IF index = 1
                   THEN [p1 EXCEPT !.text = Some(OrEmpty(@) \o Indent(depth + 1))]
                   ELSE [p1 EXCEPT !.children[index - 1].tail =
                                       Some(OrEmpty(@) \o Indent(depth + 1))]
             p3 == IF index = Len(parent.children)
                   THEN [p2 EXCEPT !.children[index].tail =
                                       Some(OrEmpty(@) \o Indent(depth))]
                   ELSE p2
         IN  prettifyFromAppending(p3, index + 1, depth)

prettifyFrom(parent, index, depth) ==
    IF index > Len(parent.children) THEN parent
    ELSE LET node == prettify(parent.children[index], depth + 1)
             p1 == [parent EXCEPT !.children[index] = node]
             p2 == IF index = 1
                   THEN [p1 EXCEPT !.text = Some(Indent(depth + 1))]
                   ELSE [p1 EXCEPT !.children[index - 1].tail = Some(Indent(depth + 1))]
             p3 == IF index = Len(parent.children)
                   THEN [p2 EXCEPT !.children[index].tail = Some(Indent(depth))]
                   ELSE p2
         IN  prettifyFrom(p3, index + 1, depth)

\* ElementTree's escaping of text and of attribute values
RECURSIVE EscapeCdata(_)
EscapeCdata(s) ==
    IF s = <<>> THEN <<>>
    ELSE (CASE s[1] = "&" -> <<"&", "a", "m", "p", ";">>
            [] s[1] = "<" -> <<"&", "l", "t", ";">>
            [] s[1] = ">" -> <<"&", "g", "t", ";">>
            [] OTHER      -> <<s[1]>>) \o EscapeCdata(Tail(s))

RECURSIVE EscapeAttrib(_)
EscapeAttrib(s) ==
    IF s = <<>> THEN <<>>
    ELSE (CASE s[1] = "&"  -> <<"&", "a", "m", "p", ";">>
            [] s[1] = "<"  -> <<"&", "l", "t", ";">>
            [] s[1] = ">"  -> <<"&", "g", "t", ";">>
            [] s[1] = "\"" -> <<"&", "q", "u", "o", "t", ";">>
            [] s[1] = "\n" -> <<"&", "#", "1", "0", ";">>
            [] OTHER       -> <<s[1]>>) \o EscapeAttrib(Tail(s))

RECURSIVE AttribStr(_, _)
AttribStr(attrib, k) ==
    IF k > Len(attrib) THEN <<>>
    ELSE <<" ", attrib[k][1], "=\"">> \o EscapeAttrib(attrib[k][2]) \o <<"\"">>
         \o AttribStr(attrib, k + 1)

\* ET.tostring(tree, encoding='utf-8', short_empty_elements=False): the
\* pieces of the output in order (a tag name is one piece)
RECURSIVE tostring(_)
RECURSIVE childrenToString(_, _)
tostring(el) ==
    <<"<", el.tag>> \o AttribStr(el.attrib, 1) \o <<">">>
    \o EscapeCdata(OrEmpty(el.text))
    \o childrenToString(el.children, 1)
    \o <<"</", el.tag, ">">>
    \o EscapeCdata(OrEmpty(el.tail))

childrenToString(children, k) ==
    IF k > Len(children) THEN <<>>
    ELSE tostring(children[k]) \o childrenToString(children, k + 1)

\* export up to the print: the object with its tree built and indented,
\* and xmlStr
ExportRender(self, ep) ==
    LET built == IF self.xmlTree = None
                 THEN [self EXCEPT !.xmlTree = Some(buildNfo(self, ep))]
                 ELSE self
        tree  == prettify(Val(built.xmlTree), 0)
    IN  [nfo    |-> [built EXCEPT !.xmlTree = Some(tree)],
         xmlStr |-> <<DECLARATION, "\n">> \o tostring(tree)]

\* EpisodeNfo.export: the object and the module state it leaves.  outcome
\* is what the file system does: "ok", or an IOError raised by open
\* ("openfail"), by write ("writefail") or when the with block closes the
\* file ("closefail"); export catches the IOError itself
export(self, ep, outcome, g) ==
    LET r      == ExportRender(self, ep)
        path   == NfoPath(r.nfo)
        opened == outcome # "openfail"
    IN  [nfo     |-> r.nfo,
         stdout  |-> Append(g.stdout, r.xmlStr),
         disk    |-> IF opened THEN g.disk \cup {path} ELSE g.disk,
         writes  |-> IF opened
                     THEN Append(g.writes, [path |-> path, existed |-> path \in g.disk,
                                            outcome |-> outcome])
                     ELSE g.writes,
         written |-> IF outcome \in {"ok", "closefail"}
                     THEN Append(g.written, path) ELSE g.written,
         failed  |-> IF outcome # "ok" THEN Append(g.failed, path) ELSE g.failed]

Globals == [stdout |-> stdout, disk |-> disk, writes |-> writes,
            written |-> written, failed |-> failed]

-----------------------------------------------------------------------------
(* Module-level configuration *)

cwd == <<".">>
containers == <<
    <<".","a","v","c","h","d">>,
    <<".","a","v","i">>,
    <<".","f","l","v">>, <<".","s","w","f">>, <<".","f","4","v">>,
    <<".","m","k","v">>,
    <<".","m","o","v">>, <<".","q","t">>,
    <<".","m","p","4">>, <<".","m","4","p">>, <<".","m","4","v">>,
    <<".","m","p","g">>, <<".","m","p","2">>, <<".","m","p","e","g">>,
    <<".","m","p","e">>, <<".","m","p","v">>,
    <<".","o","g","g">>,
    <<".","w","e","b","m">>,
    <<".","w","m","v">>
>>
ContainerSet == Range(containers)
extraElements == <<"plot", "credits", "aired", "userrating">>
uniqueIdSource == "path"
uniqueIdType == <<"h","a","s","h","p","a","t","h">>

-----------------------------------------------------------------------------
(* Bounds and inputs *)

MaxFiles == 2      \* files in one directory listing
MaxFailures == 1   \* exports that raise IOError in one run
MaxExports == 2    \* calls of export on one EpisodeNfo object
MaxExtras == 1     \* length of a generated extra-element list
MaxDirLen == 3     \* length of a generated directory name
MaxDigits == 2     \* length of a generated run of digits

\* all strings over alphabet of length at most n
Strings(alphabet, n) == UNION {[1..k -> alphabet] : k \in 0..n}

\* a set as a list in some order (os.listdir gives no order)
RECURSIVE Listing(_)
Listing(S) ==
    IF S = {} THEN <<>>
    ELSE LET x == CHOOSE y \in S : TRUE IN <<x>> \o Listing(S \ {x})

\* the directory tree of the driver runs
SubDirs == { <<"S","p","e","c","i","a","l","s">> }
Roots == {cwd} \cup {PathJoin(cwd, d) : d \in SubDirs}
FilePool == {
    <<"0","1",".","T",".","a","v","i">>,
    <<"0","1",".","T",".","M","K","V">>,
    <<"0","1",".","T",".","n","f","o">>,
    <<"r","e","a","d","m","e">>,
    <<"c",".","j","p","g">>
}
Listings == {S \in SUBSET FilePool : Cardinality(S) <= MaxFiles}

\* directory names given to DirectoryParser
Season02 == <<"S","e","a","s","o","n"," ","0","2">>
Specials == <<"S","p","e","c","i","a","l","s">>
Extras   == <<"E","x","t","r","a","s">>
DirExamples == {
    Season02, Specials, Extras,
    <<"s","p","e","c","i","a","l","s"," ","2">>,
    <<"0","1"," ","-"," ","P","i","l","o","t"," ","S","e","a","s","o","n">>,
    <<"C","h","a","p","t","e","r"," ","2">>,
    <<".">>
}
DirInputs == DirExamples \cup Strings({"S", "p", " ", "-", "2", "0"}, MaxDirLen)

\* base names given to FileParser
Pilot     == <<"1","x","0","1","."," ","P","i","l","o","t">>
Finale    == <<"3","x","1","5"," ","-"," ","F","i","n","a","l","e">>
Title01   == <<"0","1","."," ","T","i","t","l","e">>
DotSxxEyy == <<"N","a","m","e",".","S","0","1","E","0","2",".","T","i","t","l","e">>
DashSxxEyy == <<"N","a","m","e"," ","-"," ","s","0","1","e","0","2"," ","-"," ",
                "T","i","t","l","e">>
LeadSxxEyy == <<"S","0","1","E","0","2",".","T","i","t","l","e">>
PlainName == <<"H","o","l","i","d","a","y">>
FileExamples == {Pilot, Finale, Title01, DotSxxEyy, DashSxxEyy, LeadSxxEyy, PlainName}
FileResets == {Pilot, PlainName}
DigitRuns == Strings({"0", "1"}, MaxDigits)
FileInputs ==
    FileExamples \cup
    { pre \o a \o sep \o b \o gap \o t :
        pre \in {<<>>, <<"N", ".">>, <<"s">>},
        a   \in DigitRuns,
        sep \in {<<>>, <<"x">>, <<".">>, <<"E">>},
        b   \in DigitRuns,
        gap \in {<<>>, <<".", " ">>, <<" ", "-", " ">>},
        t   \in {<<>>, <<"T">>} }

\* what EpisodeNfo objects are built from
NfoTitles == {None, Some(<<"P">>), Some(<<"a", "&", "b">>)}
NfoNumbers == {None, Some(0), Some(15)}
NfoExtras == {extraElements} \cup Strings({"plot", "aired"}, MaxExtras)

-----------------------------------------------------------------------------
(* The script: src/main.py from line 292 *)

Init ==
    /\ overwrite \in BOOLEAN
    /\ outputEmptyElements = TRUE
    /\ total = 0
    /\ skipped = <<>>
    /\ written = <<>>
    /\ pc = "walk"
    /\ walked = {}
    /\ root = None
    /\ files = <<>>
    /\ queue = <<>>
    /\ idx = 1
    /\ directoryParser = None
    /\ fileParser = None
    /\ episode = None
    /\ nfo = None
    /\ disk = {}
    /\ stdout = <<>>
    /\ writes = <<>>
    /\ failed = <<>>
    /\ last = [event |-> "start", file |-> None]

\* os.walk yields the next directory; the DirectoryParser is built from its
\* base name
EnterDirectory ==
    /\ pc = "walk"
    /\ \E r \in Roots \ walked :
         /\ walked = {} => r = cwd
         /\ root' = Some(r)
         /\ walked' = walked \cup {r}
         /\ directoryParser' = Some(DirectoryParserNew(Basename(r)))
         /\ last' = [event |-> "enter", file |-> Some(r)]
         /\ \E S \in Listings :
              /\ files' = Listing(S)
              /\ queue' = Sorted(Listing(S))
              /\ disk' = disk \cup {PathJoin(r, f) : f \in S}
    /\ idx' = 1
    /\ pc' = "files"
    /\ UNCHANGED <<overwrite, outputEmptyElements, total, skipped, written,
                   fileParser, episode, nfo, stdout, writes, failed>>

InLoop == pc = "files" /\ idx <= Len(queue)
File == queue[idx]
FileRoot == SplitExt(File)[1]
FileExtension == SplitExt(File)[2]
FilePath == PathJoin(Val(root), File)

\* the three filters at the head of the loop body
IsDotfile == Len(FileExtension) = 0
IsDescriptor == ~IsDotfile /\ Lower(FileExtension) = EXTENSION
\* A faulty variant of the allow-list test: the extension is compared as
\* it is spelled, not lower-cased
IsUnsupportedCaseSensitive ==
    ~IsDotfile /\ ~IsDescriptor /\ FileExtension \notin ContainerSet

IsUnsupported ==
    ~IsDotfile /\ ~IsDescriptor /\ Lower(FileExtension) \notin ContainerSet
IsContainer == ~IsDotfile /\ ~IsDescriptor /\ ~IsUnsupported

\* the EpisodeNfo of lines 315-323
LoopNfo ==
    EpisodeNfoNew(Val(root), FileRoot, Lower(FileExtension), outputEmptyElements,
                  extraElements, uniqueIdSource, uniqueIdType)

IsExisting == ~overwrite /\ NfoBasename(LoopNfo) \in Range(files)

Continue(event) ==
    /\ idx' = idx + 1
    /\ last' = [event |-> event, file |-> Some(FilePath)]
    /\ UNCHANGED <<overwrite, outputEmptyElements, pc, walked, root, files,
                   queue, directoryParser>>

SkipDotfile ==
    /\ InLoop /\ IsDotfile
    /\ Continue("dotfile")
    /\ UNCHANGED <<total, skipped, written, fileParser, episode, nfo, disk,
                   stdout, writes, failed>>

SkipDescriptor ==
    /\ InLoop /\ IsDescriptor
    /\ Continue("descriptor")
    /\ UNCHANGED <<total, skipped, written, fileParser, episode, nfo, disk,
                   stdout, writes, failed>>

SkipUnsupported ==
    /\ InLoop /\ IsUnsupported
    /\ Continue("unsupported")
    /\ UNCHANGED <<total, skipped, written, fileParser, episode, nfo, disk,
                   stdout, writes, failed>>

\* lines 330-345: classify the name, fill the entity, export, count
ProcessBody(outcome, event) ==
    /\ LET fp == FileParserNew(FileRoot, Some(FileRoot),
                               Val(directoryParser).seasonNumber)
           e  == SetSeasonNumber(
                   SetEpisodeNumber(
                     SetEpisodeTitle(EpisodeEntityNew, fp.episodeTitle),
                     fp.episodeNumber),
                   fp.seasonNumber)
           n  == [LoopNfo EXCEPT !.episode = Some(e)]
           x  == export(n, e, outcome, Globals)
       IN  /\ fileParser' = Some(fp)
           /\ episode' = Some(e)
           /\ nfo' = Some(x.nfo)
           /\ stdout' = x.stdout
           /\ disk' = x.disk
           /\ writes' = x.writes
           /\ failed' = x.failed
           /\ written' = Append(x.written, NfoPath(n))
    /\ total' = total + 1
    /\ Continue(event)

Process(outcome, event) ==
    /\ InLoop /\ IsContainer /\ ~IsExisting
    /\ ProcessBody(outcome, event)
    /\ UNCHANGED skipped

\* A faulty variant of the skip: the continue is missing, so the file is
\* recorded as skipped and then exported all the same
SkipExistingNoContinue ==
    /\ InLoop /\ IsContainer /\ IsExisting
    /\ skipped' = Append(skipped, NfoPath(LoopNfo))
    /\ ProcessBody("ok", "skipped")

SkipExisting ==
    /\ InLoop /\ IsContainer /\ IsExisting
    /\ nfo' = Some(LoopNfo)
    /\ skipped' = Append(skipped, NfoPath(LoopNfo))
    /\ Continue("skipped")
    /\ UNCHANGED <<total, written, fileParser, episode, disk, stdout, writes,
                   failed>>

ExportWritten == Process("ok", "written")

\* A faulty variant of the failing export: nothing catches the IOError, the
\* script ends with the exception
ExportFailsUncaught(outcome) ==
    /\ InLoop /\ IsContainer /\ ~IsExisting
    /\ Len(failed) < MaxFailures
    /\ pc' = "crashed"
    /\ failed' = Append(failed, NfoPath(LoopNfo))
    /\ last' = [event |-> outcome, file |-> Some(FilePath)]
    /\ UNCHANGED <<overwrite, outputEmptyElements, total, skipped, written,
                   walked, root, files, queue, idx, directoryParser, fileParser,
                   episode, nfo, disk, stdout, writes>>

ExportFails(outcome) ==
    /\ Len(failed) < MaxFailures
    /\ Process(outcome, outcome)

ExportOpenFails == ExportFails("openfail")
ExportWriteFails == ExportFails("writefail")
ExportCloseFails == ExportFails("closefail")

LeaveDirectory ==
    /\ pc = "files" /\ idx > Len(queue)
    /\ pc' = "walk"
    /\ last' = [event |-> "leave", file |-> root]
    /\ UNCHANGED <<overwrite, outputEmptyElements, total, skipped, written,
                   walked, root, files, queue, idx, directoryParser,
                   fileParser, episode, nfo, disk, stdout, writes, failed>>

\* os.walk is exhausted: lines 348-350
Finish ==
    /\ pc = "walk" /\ walked # {}
    /\ pc' = "done"
    /\ stdout' = stdout \o << <<"total: ">> \o Decimal(total),
                              <<"skipped: ">> \o Decimal(Len(skipped)),
                              <<"written: ">> \o Decimal(Len(written)) >>
    /\ last' = [event |-> "finish", file |-> None]
    /\ UNCHANGED <<overwrite, outputEmptyElements, total, skipped, written,
                   walked, root, files, queue, idx, directoryParser,
                   fileParser, episode, nfo, disk, writes, failed>>

Next ==
    \/ EnterDirectory
    \/ SkipDotfile
    \/ SkipDescriptor
    \/ SkipUnsupported
    \/ SkipExisting
    \/ ExportWritten
    \/ ExportOpenFails
    \/ ExportWriteFails
    \/ ExportCloseFails
    \/ LeaveDirectory
    \/ Finish

Spec == Init /\ [][Next]_vars

-----------------------------------------------------------------------------
(* The classes on their own: an object is constructed from drawn arguments *)
(* and its methods are called; the script is not running (pc = "unit")     *)

UnitInit ==
    /\ overwrite = FALSE
    /\ outputEmptyElements = TRUE
    /\ total = 0
    /\ skipped = <<>>
    /\ written = <<>>
    /\ pc = "unit"
    /\ walked = {}
    /\ root = None
    /\ files = <<>>
    /\ queue = <<>>
    /\ idx = 1
    /\ disk = {}
    /\ stdout = <<>>
    /\ writes = <<>>
    /\ failed = <<>>
    /\ last = [event |-> "start", file |-> None]

\* DirectoryParser.__init__ has assigned _directory and is about to parse
InitDirectory ==
    /\ UnitInit
    /\ directoryParser \in
         {Some([_directory |-> d, seasonNumber |-> None, at |-> "directory"]) :
            d \in DirInputs}
    /\ fileParser = None
    /\ episode = None
    /\ nfo = None

DirectoryParse ==
    /\ pc = "unit" /\ directoryParser # None
    /\ Val(directoryParser).at = "directory"
    /\ directoryParser' = Some(DirectoryParserParse(Val(directoryParser)))
    /\ last' = [event |-> "parse", file |-> None]
    /\ UNCHANGED <<overwrite, outputEmptyElements, total, skipped, written, pc,
                   walked, root, files, queue, idx, fileParser, episode, nfo,
                   disk, stdout, writes, failed>>

DirectorySet ==
    /\ pc = "unit" /\ directoryParser # None
    /\ Val(directoryParser).at = "parsed"
    /\ \E value \in DirExamples :
         directoryParser' = Some(DirectoryParserDirectory(Val(directoryParser), value))
    /\ last' = [event |-> "directory", file |-> None]
    /\ UNCHANGED <<overwrite, outputEmptyElements, total, skipped, written, pc,
                   walked, root, files, queue, idx, fileParser, episode, nfo,
                   disk, stdout, writes, failed>>

NextDirectory ==
    \/ DirectoryParse
    \/ DirectorySet

SpecDirectory == InitDirectory /\ [][NextDirectory]_vars

\* FileParser.__init__ has assigned the defaults and _file and is about to
\* parse; the default title is absent or, as in the script, the base name
InitFile ==
    /\ UnitInit
    /\ fileParser \in
         {Some(FileParserInit(f, t, sn)) :
            f \in FileInputs, t \in {None, Some(PlainName)}, sn \in {None, Some(1)}}
         \cup {Some(FileParserInit(f, Some(f), sn)) :
                 f \in FileInputs, sn \in {None, Some(1)}}
    /\ directoryParser = None
    /\ episode = None
    /\ nfo = None

FileParse ==
    /\ pc = "unit" /\ fileParser # None
    /\ Val(fileParser).at = "file"
    /\ fileParser' = Some(FileParserParse(Val(fileParser)))
    /\ last' = [event |-> "parse", file |-> None]
    /\ UNCHANGED <<overwrite, outputEmptyElements, total, skipped, written, pc,
                   walked, root, files, queue, idx, directoryParser, episode,
                   nfo, disk, stdout, writes, failed>>

FileSet ==
    /\ pc = "unit" /\ fileParser # None
    /\ Val(fileParser).at = "parsed"
    /\ \E value \in FileResets :
         fileParser' = Some(FileParserFile(Val(fileParser), value))
    /\ last' = [event |-> "file", file |-> None]
    /\ UNCHANGED <<overwrite, outputEmptyElements, total, skipped, written, pc,
                   walked, root, files, queue, idx, directoryParser, episode,
                   nfo, disk, stdout, writes, failed>>

NextFile ==
    \/ FileParse
    \/ FileSet

SpecFile == InitFile /\ [][NextFile]_vars

\* an EpisodeNfo constructed and given its episode, as at line 339
NfoEpisodes ==
    { [_episodeTitle |-> t, _episodeNumber |-> e, _seasonNumber |-> sn] :
        t \in NfoTitles, e \in NfoNumbers, sn \in NfoNumbers }

InitNfo ==
    /\ UnitInit
    /\ directoryParser = None
    /\ fileParser = None
    /\ episode \in {Some(e) : e \in NfoEpisodes}
    /\ nfo \in
         {Some([EpisodeNfoNew(PathJoin(cwd, Specials), <<"a">>, <<".","m","k","v">>,
                              ee, extras, src, uniqueIdType)
                  EXCEPT !.episode = episode]) :
            ee \in BOOLEAN, extras \in NfoExtras,
            src \in {"path", "filename", "absolute"}}

NfoBuild ==
    /\ pc = "unit" /\ nfo # None
    /\ Val(nfo).xmlTree = None
    /\ nfo' = Some([Val(nfo) EXCEPT !.xmlTree = Some(buildNfo(Val(nfo), Val(episode)))])
    /\ last' = [event |-> "buildNfo", file |-> None]
    /\ UNCHANGED <<overwrite, outputEmptyElements, total, skipped, written, pc,
                   walked, root, files, queue, idx, directoryParser, fileParser,
                   episode, disk, stdout, writes, failed>>

NfoExport ==
    /\ pc = "unit" /\ nfo # None
    /\ Len(stdout) < MaxExports
    /\ \E outcome \in {"ok", "openfail", "writefail", "closefail"} :
         /\ outcome # "ok" => Len(failed) < MaxFailures
         /\ \E x \in {export(Val(nfo), Val(episode), outcome, Globals)} :
              /\ nfo' = Some(x.nfo)
              /\ stdout' = x.stdout
              /\ disk' = x.disk
              /\ writes' = x.writes
              /\ failed' = x.failed
              /\ written' = x.written
         /\ last' = [event |-> outcome, file |-> Some(NfoPath(Val(nfo)))]
    /\ UNCHANGED <<overwrite, outputEmptyElements, total, skipped, pc, walked,
                   root, files, queue, idx, directoryParser, fileParser, episode>>

NextNfo ==
    \/ NfoBuild
    \/ NfoExport

SpecNfo == InitNfo /\ [][NextNfo]_vars

-----------------------------------------------------------------------------
(* Properties of the driver loop (Spec) *)

Count(seq, x) == Cardinality({i \in 1..Len(seq) : seq[i] = x})

\* the file the loop is about to process, read off the state
CurExt == Lower(SplitExt(queue[idx])[2])
CurDescriptor == SplitExt(queue[idx])[1] \o <<".", "n", "f", "o">>
CurDescriptorPath == PathJoin(Val(root), CurDescriptor)

\* C1: with overwrite disabled, processing a container file whose descriptor
\* name is in the directory listing appends the descriptor path to skipped
\* exactly once, writes nothing, leaves written and total as they are
C1_SkipOnExisting ==
    [][ ( /\ pc = "files" /\ idx <= Len(queue)
          /\ ~overwrite
          /\ CurExt \in ContainerSet
          /\ CurDescriptor \in Range(files) )
        => ( /\ skipped' = Append(skipped, CurDescriptorPath)
             /\ written' = written
             /\ total' = total
             /\ disk' = disk
             /\ writes' = writes
             /\ stdout' = stdout
             /\ idx' = idx + 1 ) ]_vars

C1_Witness ==
    /\ ~overwrite
    /\ last.event = "skipped"
    /\ Len(skipped) = 1
    /\ total = 0 /\ written = <<>> /\ writes = <<>>

\* C2: a file without extension, with the extension .nfo in any case, or
\* with an extension outside the allow-list leaves total, skipped and
\* written unchanged and writes nothing; a file whose extension is in the
\* allow-list in any letter case goes on to the skip check or the export
C2_UnsupportedFiltered ==
    [][ /\ ( /\ pc = "files" /\ idx <= Len(queue)
             /\ (CurExt = <<>> \/ CurExt = <<".", "n", "f", "o">>
                 \/ CurExt \notin ContainerSet) )
           => ( /\ total' = total
                /\ skipped' = skipped
                /\ written' = written
                /\ disk' = disk
                /\ writes' = writes
                /\ stdout' = stdout
                /\ pc' = pc
                /\ idx' = idx + 1 )
        /\ ( /\ pc = "files" /\ idx <= Len(queue)
             /\ CurExt \in ContainerSet )
           => ( \/ skipped' = Append(skipped, CurDescriptorPath)
                \/ total' = total + 1 ) ]_vars

C2_Witness ==
    /\ Range(files) = { <<"0","1",".","T",".","M","K","V">>,
                        <<"r","e","a","d","m","e">> }
    /\ last.event = "dotfile"
    /\ total = 1
    /\ skipped = <<>>

\* C7: an export that fails with an I/O error is handled for that file only:
\* the script does not end with an exception, the loop goes on to the next
\* file of the listing, total counts the file, and every directory is left
\* only when all its files have been processed
C7_WriteFailureRecovered ==
    /\ [](pc # "crashed")
    /\ [](pc \in {"walk", "done"} => idx = Len(queue) + 1)
    /\ [][ Len(failed') = Len(failed) + 1
           => ( /\ pc' = "files"
                /\ queue' = queue
                /\ idx' = idx + 1
                /\ total' = total + 1 ) ]_vars

C7_Witness ==
    /\ failed # <<>>
    /\ last.event = "written"
    /\ total = 2

\* C8: written holds each descriptor path whose write succeeded exactly once
\* and no path whose write failed, and has total entries when no write fails
C8_SummaryAccurate ==
    /\ \A i \in 1..Len(writes) :
         writes[i].outcome = "ok" => Count(written, writes[i].path) = 1
    /\ \A i \in 1..Len(failed) :
         (\A j \in 1..Len(writes) :
            writes[j].path = failed[i] => writes[j].outcome # "ok")
         => failed[i] \notin Range(written)
    /\ failed = <<>> => Len(written) = total

\* C10: with overwrite disabled a run writes each descriptor path at most
\* once and never writes to a path that exists at the moment of the write
C10_NoOverwrite ==
    ~overwrite =>
        /\ \A i \in 1..Len(writes) : ~writes[i].existed
        /\ \A i, j \in 1..Len(writes) : writes[i].path = writes[j].path => i = j

-----------------------------------------------------------------------------
(* Properties of DirectoryParser (SpecDirectory) *)

Letters == UpperSet \cup Range(LowerLetters)

\* word, whitespace, integer: the lengths of the word and of the whitespace
WordSpaceInt(d) ==
    { <<i, j>> \in (1..Len(d)) \X (1..Len(d)) :
        /\ i < j /\ j < Len(d)
        /\ \A k \in 1..i : d[k] \in Letters
        /\ \A k \in (i + 1)..j : IsSpace(d[k])
        /\ \A k \in (j + 1)..Len(d) : IsDigit(d[k]) }

StartsWithSpecials(d) ==
    /\ Len(d) >= Len(Specials)
    /\ Lower(SubSeq(d, 1, Len(Specials))) = Lower(Specials)

\* C3: a directory name made of a word, whitespace and a trailing integer
\* resolves to that integer ("Season 02" to 2), a name beginning with
\* "Specials" in any case to 0, a name matching no pattern ("Extras") to null
C3_SeasonInference ==
    (directoryParser # None /\ Val(directoryParser).at = "parsed") =>
        LET d  == Val(directoryParser)._directory
            sn == Val(directoryParser).seasonNumber
        IN  /\ \A ij \in WordSpaceInt(d) :
                 sn = Some(ParseInt(SubSeq(d, ij[2] + 1, Len(d))))
            /\ d = Season02 => sn = Some(2)
            /\ StartsWithSpecials(d) => sn = Some(0)
            /\ d = Extras => sn = None

-----------------------------------------------------------------------------
(* Properties of FileParser (SpecFile) *)

Matching(f) == {k \in 1..Len(FileParserREGEXES) : ReMatch(FileParserREGEXES[k], f) # None}
Least(S) == CHOOSE k \in S : \A j \in S : k <= j

FieldsAre(fp, sn, en, title) ==
    fp.seasonNumber = sn /\ fp.episodeNumber = en /\ fp.episodeTitle = title

\* C4: the result is the capture of the first pattern that matches the base
\* name, laid over the caller's defaults; a name that matches no pattern
\* keeps the defaults and a null episode
C4_FirstMatchWins ==
    (fileParser # None /\ Val(fileParser).at = "parsed") =>
        LET fp == Val(fileParser)
            f  == fp._file
            d  == Val(ReMatch(FileParserREGEXES[Least(Matching(f))], f))
        IN  /\ Matching(f) = {} =>
                 FieldsAre(fp, fp._seasonNumber, None, fp._episodeTitle)
            /\ Matching(f) # {} =>
                 FieldsAre(fp,
                           IF "seasonNumber" \in DOMAIN d
                           THEN Some(ParseInt(d["seasonNumber"])) ELSE fp._seasonNumber,
                           Some(ParseInt(d["episodeNumber"])),
                           Some(d["episodeTitle"]))
            /\ f = Pilot => FieldsAre(fp, Some(1), Some(1), Some(<<"P","i","l","o","t">>))
            /\ f = Finale =>
                 FieldsAre(fp, Some(3), Some(15), Some(<<"F","i","n","a","l","e">>))
            /\ f = Title01 =>
                 FieldsAre(fp, fp._seasonNumber, Some(1), Some(<<"T","i","t","l","e">>))
            /\ f = PlainName =>
                 FieldsAre(fp, fp._seasonNumber, None, fp._episodeTitle)

\* a parsed name that two patterns match, the first of them deciding
C4_Witness ==
    /\ fileParser # None
    /\ Val(fileParser).at = "parsed"
    /\ Matching(Val(fileParser)._file) = {1, 2}
    /\ Val(fileParser)._seasonNumber = Some(1)
    /\ Val(fileParser).seasonNumber = Some(10)

\* the leftmost place after a non-empty prefix where the third pattern matches
SxxEyyPlaces(f) ==
    {k \in 2..Len(f) : ReMatch(FileParserREGEXES[3], SubSeq(f, k, Len(f))) # None}

\* C5: for a base name that matches neither of the first two patterns and
\* contains the SxxEyy form after a non-empty prefix, FileParser yields that
\* season, that episode and the text after the separator as title
C5_SxxEyyAnywhere ==
    (fileParser # None /\ Val(fileParser).at = "parsed") =>
        LET fp == Val(fileParser)
            f  == fp._file
            d  == Val(ReMatch(FileParserREGEXES[3],
                              SubSeq(f, Least(SxxEyyPlaces(f)), Len(f))))
        IN  (1 \notin Matching(f) /\ 2 \notin Matching(f) /\ SxxEyyPlaces(f) # {}) =>
                FieldsAre(fp, Some(ParseInt(d["seasonNumber"])),
                          Some(ParseInt(d["episodeNumber"])),
                          Some(d["episodeTitle"]))

-----------------------------------------------------------------------------
(* Properties of EpisodeNfo (SpecNfo) *)

Tags(children) == [i \in 1..Len(children) |-> children[i].tag]

\* C6: the children of episodedetails are, in order: title; season iff the
\* flag is set or the season is known (its decimal text, or empty); episode
\* by the same rule; uniqueid with its type attribute and a non-empty text;
\* then one empty element per extra name iff the flag is set
C6_ChildrenOrder ==
    (nfo # None /\ Val(nfo).xmlTree # None) =>
        LET self == Val(nfo)
            tree == Val(self.xmlTree)
            e    == Val(self.episode)
            flag == self.emptyElements
            opt(tag, n) == IF flag \/ n # None THEN <<tag>> ELSE <<>>
            fixed == <<"title">> \o opt("season", e._seasonNumber)
                     \o opt("episode", e._episodeNumber) \o <<"uniqueid">>
        IN  /\ tree.tag = "episodedetails"
            /\ Tags(tree.children) =
                 fixed \o (IF flag THEN self.extraElements ELSE <<>>)
            /\ \A i \in 1..Len(tree.children) :
                 LET c == tree.children[i]
                 IN  /\ c.children = <<>>
                     /\ (i <= Len(fixed) /\ c.tag = "season") =>
                          c.text = IF e._seasonNumber = None THEN Some(<<>>)
                                   ELSE Some(Decimal(Val(e._seasonNumber)))
                     /\ (i <= Len(fixed) /\ c.tag = "episode") =>
                          c.text = IF e._episodeNumber = None THEN Some(<<>>)
                                   ELSE Some(Decimal(Val(e._episodeNumber)))
                     /\ (i <= Len(fixed) /\ c.tag = "uniqueid") =>
                          /\ c.attrib = << <<"type", self.uniqueIdType>> >>
                          /\ c.text # None /\ Len(Val(c.text)) > 0
                     /\ i > Len(fixed) => c.text = None /\ c.attrib = <<>>

\* a tree built with the flag set for an episode of unknown season
C6_Witness ==
    /\ nfo # None
    /\ Val(nfo).xmlTree # None
    /\ Val(nfo).emptyElements
    /\ Val(Val(nfo).episode)._seasonNumber = None
    /\ Val(nfo).extraElements = <<"plot">>
    /\ Tags(Val(Val(nfo).xmlTree).children) =
         <<"title", "season", "episode", "uniqueid", "plot">>

\* C9: indenting and rendering a built tree again yields the string of the
\* first rendering and leaves the text and tail of every node as the first
\* pass set them, each child on its own line two spaces deeper than the root
C9_SerializationIdempotent ==
    /\ [](\A i, j \in 1..Len(stdout) : stdout[i] = stdout[j])
    /\ []((stdout # <<>> /\ nfo # None) =>
            LET tree == Val(Val(nfo).xmlTree)
                n    == Len(tree.children)
            IN  /\ tree.text = Some(<<"\n", " ", " ">>)
                /\ \A i \in 1..(n - 1) :
                     tree.children[i].tail = Some(<<"\n", " ", " ">>)
                /\ tree.children[n].tail = Some(<<"\n">>))
    /\ [][ (stdout # <<>> /\ Len(stdout') = Len(stdout) + 1)
           => Val(nfo').xmlTree = Val(nfo).xmlTree ]_vars

C9_Witness ==
    /\ Len(stdout) = 2
    /\ nfo # None
    /\ Len(Val(Val(nfo).xmlTree).children) = 5

=============================================================================
